---- MODULE Spec2Model ----
(***************************************************************************)
(* Product review widget (lab4, script.js): the in-memory review store,    *)
(* the submit / star / helpful / sort handlers and the statistics and card *)
(* list they publish.                                                      *)
(*                                                                         *)
(* Numbers are JavaScript Numbers (IEEE-754 binary64).  A non-negative     *)
(* double is kept exactly as [int, frac]: its integer part and the bits of *)
(* its binary fraction, most significant first.  Division, multiplication, *)
(* toFixed, parseFloat and Math.round are computed on that representation  *)
(* with round-to-nearest-even to 53 significant bits, so every intermediate*)
(* number the code rounds is rounded here too.                             *)
(*                                                                         *)
(* Not modelled: error texts and CSS classes (showError / clearError), the *)
(* character counter, hover effects, scrolling.  No modelled handler reads *)
(* them.                                                                   *)
(***************************************************************************)
EXTENDS Integers, Sequences, FiniteSets, TLC

\* ------------------------------------------------------------------------
\* Bounds of the model
\* ------------------------------------------------------------------------

\* Longest store the event-driven specification builds.
MaxReviews == 2

\* Largest store of the statistics specification.
MaxCount == 40

\* Longest store of the sorting family of the statistics specification.
MaxSortLen == 3

\* Values Date.now() / new Date() can return (milliseconds, rebased).
ClockValues == {0, 1}

\* The star buttons the model clicks (data-rating of the clicked star).
StarButtons == {3, 5}

\* ------------------------------------------------------------------------
\* IEEE-754 binary64 arithmetic on non-negative numbers
\* ------------------------------------------------------------------------

\* Significant bits of a binary64 mantissa.
MantissaBits == 53

RECURSIVE BitLen(_)
\* Number of bits of the natural n (0 for 0).
BitLen(n) == IF n = 0 THEN 0 ELSE 1 + BitLen(n \div 2)

\* Bits handled at once when a bit sequence is multiplied.
ChunkBits == 15

\* 2^i modulo q, for 0 <= i < 5 * ChunkBits and 0 < q < 2^ChunkBits, without
\* forming 2^i.
Pow2Mod(i, q) ==
    LET p1 == (2 ^ ChunkBits) % q
        p2 == (p1 * p1) % q
        p3 == (p2 * p1) % q
        p4 == (p3 * p1) % q
        hi == CASE i \div ChunkBits = 0 -> 1 % q
                [] i \div ChunkBits = 1 -> p1
                [] i \div ChunkBits = 2 -> p2
                [] i \div ChunkBits = 3 -> p3
                [] OTHER -> p4
    IN  (hi * (2 ^ (i % ChunkBits))) % q

\* Remainder of the long division r / q (r < q) after i bits of the binary
\* fraction have been produced.
RemAfter(r, q, i) == (r * Pow2Mod(i, q)) % q

\* The first n bits of the binary fraction r / q (r < q).
FracBits(r, q, n) == [i \in 1..n |-> (2 * RemAfter(r, q, i - 1)) \div q]

\* Zero bits before the first one bit of the binary fraction r / q
\* (0 < r < q < 2^ChunkBits).
LeadingZeros(r, q) ==
    CHOOSE z \in 0..ChunkBits :
        /\ (2 ^ (z + 1)) * r >= q
        /\ \A y \in 0..(z - 1) : (2 ^ (y + 1)) * r < q

\* Zero bits before the first one bit of a bit sequence (its length if none).
LeadingZeroBits(bits) ==
    LET ones == {i \in 1..Len(bits) : bits[i] = 1}
    IN  IF ones = {} THEN Len(bits)
        ELSE (CHOOSE i \in ones : \A j \in ones : i <= j) - 1

\* A bit sequence plus one unit in its last place: [bits, carry].
IncBits(bits) ==
    LET zeros == {i \in 1..Len(bits) : bits[i] = 0}
    IN  IF zeros = {}
        THEN [bits |-> [i \in 1..Len(bits) |-> 0], carry |-> 1]
        ELSE LET last == CHOOSE i \in zeros : \A j \in zeros : j <= i
             IN  [bits  |-> [i \in 1..Len(bits) |->
                                IF i < last THEN bits[i] ELSE IF i = last THEN 1 ELSE 0],
                  carry |-> 0]

\* x plus one unit in the last place of its fraction.
NextUp(x) ==
    LET up == IncBits(x.frac)
    IN  [int |-> x.int + up.carry, frac |-> up.bits]

\* Fraction bits a binary64 keeps for a number with integer part ip whose
\* fraction starts with lz zero bits.
KeptFracBits(ip, lz) ==
    IF ip > 0 THEN MantissaBits - BitLen(ip) ELSE lz + MantissaBits

\* Round-to-nearest, ties-to-even: whether to round up, from the last kept
\* bit, the first dropped bit and whether anything non-zero follows it.
RoundsUp(lsb, round, sticky) == round = 1 /\ (sticky \/ lsb = 1)

\* The binary64 nearest to p / q (p >= 0, 0 < q < 2^ChunkBits): the
\* JavaScript p / q.
DivDouble(p, q) ==
    LET ip   == p \div q
        r    == p % q
        keep == IF r = 0 THEN 0
                ELSE KeptFracBits(ip, IF ip > 0 THEN 0 ELSE LeadingZeros(r, q))
        bits == FracBits(r, q, keep)
        rem  == RemAfter(r, q, keep)
        rnd  == (2 * rem) \div q
        rest == (2 * rem) % q
        lsb  == IF keep = 0 THEN ip % 2 ELSE bits[keep]
        x    == [int |-> ip, frac |-> bits]
    IN  IF RoundsUp(lsb, rnd, rest # 0) THEN NextUp(x) ELSE x

RECURSIVE BitsValue(_)
\* The natural a bit sequence of at most ChunkBits bits writes.
BitsValue(bits) ==
    IF bits = <<>> THEN 0
    ELSE 2 * BitsValue(SubSeq(bits, 1, Len(bits) - 1)) + bits[Len(bits)]

\* The bit sequence as chunks of ChunkBits bits (zero bits added at the end
\* to fill the last chunk), each chunk as a natural.
ToChunks(bits) ==
    LET m == (Len(bits) + ChunkBits - 1) \div ChunkBits
    IN  [c \in 1..m |->
            BitsValue([i \in 1..ChunkBits |->
                          IF (c - 1) * ChunkBits + i <= Len(bits)
                          THEN bits[(c - 1) * ChunkBits + i] ELSE 0])]

\* The bits the chunks write.
FromChunks(chunks) ==
    [i \in 1..(Len(chunks) * ChunkBits) |->
        (chunks[(i - 1) \div ChunkBits + 1]
            \div (2 ^ (ChunkBits - 1 - ((i - 1) % ChunkBits)))) % 2]

RECURSIVE MulChunks(_, _, _)
\* The chunks times k, from the last chunk with a carry: [chunks, carry].
MulChunks(chunks, k, carry) ==
    IF chunks = <<>> THEN [chunks |-> <<>>, carry |-> carry]
    ELSE LET n    == Len(chunks)
             v    == chunks[n] * k + carry
             high == MulChunks(SubSeq(chunks, 1, n - 1), k, v \div (2 ^ ChunkBits))
         IN  [chunks |-> Append(high.chunks, v % (2 ^ ChunkBits)),
              carry  |-> high.carry]

\* x * k as an exact real number (k a small natural).
MulExact(x, k) ==
    LET m == MulChunks(ToChunks(x.frac), k, 0)
    IN  [int |-> x.int * k + m.carry, frac |-> FromChunks(m.chunks)]

\* The binary64 nearest to the exact number x.
RoundDouble(x) ==
    LET keep == KeptFracBits(x.int, LeadingZeroBits(x.frac))
        n    == Len(x.frac)
    IN  IF n <= keep THEN x
        ELSE LET kept   == [int |-> x.int, frac |-> SubSeq(x.frac, 1, keep)]
                 lsb    == IF keep = 0 THEN x.int % 2 ELSE x.frac[keep]
                 sticky == \E i \in (keep + 2)..n : x.frac[i] = 1
             IN  IF RoundsUp(lsb, x.frac[keep + 1], sticky) THEN NextUp(kept) ELSE kept

\* The JavaScript x * k.
MulDouble(x, k) == RoundDouble(MulExact(x, k))

\* Whether the fraction of x is at least one half (x % 1 >= 0.5).
FracAtLeastHalf(x) == Len(x.frac) >= 1 /\ x.frac[1] = 1

\* Math.floor(x).
MathFloor(x) == x.int

\* Math.ceil(x).
MathCeil(x) == x.int + (IF \E i \in 1..Len(x.frac) : x.frac[i] = 1 THEN 1 ELSE 0)

\* Math.round(x): the integer nearest to x, the larger one on a tie.
MathRound(x) == x.int + (IF FracAtLeastHalf(x) THEN 1 ELSE 0)

\* x.toFixed(1), as the number of tenths the string shows: the integer n for
\* which n / 10 - x is closest to zero, the larger n when two are as close.
toFixed1(x) == MathRound(MulExact(x, 10))

\* parseFloat of a string with one decimal, given as its number of tenths.
parseFloat1(tenths) == DivDouble(tenths, 10)

\* ------------------------------------------------------------------------
\* Field values and validation
\* ------------------------------------------------------------------------

\* A text is a sequence of one-character strings.
Rep(ch, n) == [i \in 1..n |-> ch]

\* String.prototype.trim: the text without leading and trailing spaces.
trim(text) ==
    LET n == Len(text)
    IN  IF \A i \in 1..n : text[i] = " " THEN <<>>
        ELSE LET first == CHOOSE i \in 1..n :
                              text[i] # " " /\ \A j \in 1..(i - 1) : text[j] = " "
                 back  == CHOOSE k \in 1..n :
                              text[n + 1 - k] # " " /\ \A j \in 1..(k - 1) : text[n + 1 - j] = " "
             IN  SubSeq(text, first, n + 1 - back)

\* validateName(name).isValid
validateName(name) ==
    LET trimmedName == trim(name)
    IN  /\ ~(Len(trimmedName) = 0)
        /\ ~(Len(trimmedName) < 2 \/ Len(trimmedName) > 30)

\* emailRegex.test(text) for /^[^\s@]+@[^\s@]+\.[^\s@]+$/ : one "@", not
\* first, no space, and a "." after it that is neither next to it nor last.
emailRegexTest(text) ==
    \E at \in 2..Len(text) :
        /\ text[at] = "@"
        /\ \A i \in (1..Len(text)) \ {at} : text[i] \notin {" ", "@"}
        /\ \E dot \in (at + 2)..(Len(text) - 1) : text[dot] = "."

\* validateEmail(email).isValid
validateEmail(email) ==
    LET trimmedEmail == trim(email)
    IN  IF Len(trimmedEmail) = 0 THEN TRUE ELSE emailRegexTest(trimmedEmail)

\* validateTitle(title).isValid
validateTitle(title) ==
    LET trimmedTitle == trim(title)
    IN  /\ ~(Len(trimmedTitle) = 0)
        /\ ~(Len(trimmedTitle) < 5 \/ Len(trimmedTitle) > 100)

\* validateDescription(description).isValid
validateDescription(description) ==
    LET trimmedDescription == trim(description)
    IN  /\ ~(Len(trimmedDescription) = 0)
        /\ ~(Len(trimmedDescription) < 20 \/ Len(trimmedDescription) > 1000)

\* validateRating(rating).isValid (selectedRating is always a number)
validateRating(rating) ==
    /\ ~(rating = 0)
    /\ ~(rating < 1 \/ rating > 5)

\* The JavaScript values of review.recommend.
JsNull == "null"
JsTrue == "true"
JsFalse == "false"

\* recommendValue after the loop over the radios: checked is the value of
\* the checked radio, "" when none is checked.
recommendValueOf(checked) ==
    IF checked = "" THEN JsNull ELSE IF checked = "yes" THEN JsTrue ELSE JsFalse

\* A form the user submits: the four text inputs and the checked radio.
Form(name, email, title, description, checked) ==
    [customerName |-> name, customerEmail |-> email, reviewTitle |-> title,
     reviewDescription |-> description, recommend |-> checked]

\* Texts every validator accepts, at the lower length limits.
GoodName == <<"A", "l">>
GoodTitle == Rep("t", 5)
GoodDescription == Rep("d", 20)
GoodEmail == <<"a", "@", "b", ".", "c">>

\* Forms every text validator accepts.
ValidForms ==
    { Form(GoodName, <<>>, GoodTitle, GoodDescription, ""),
      Form(<<" ">> \o GoodName \o <<" ">>, GoodEmail, GoodTitle, GoodDescription, "yes"),
      Form(GoodName, <<" ">>, GoodTitle, GoodDescription, "no") }

\* Forms one text validator rejects.
InvalidForms ==
    { Form(<<" ", "A", " ">>, <<>>, GoodTitle, GoodDescription, "yes"),
      Form(Rep("n", 31), <<>>, GoodTitle, GoodDescription, ""),
      Form(GoodName, <<"a", "@", "b">>, GoodTitle, GoodDescription, "yes"),
      Form(GoodName, <<"a", "@", ".", "c">>, GoodTitle, GoodDescription, "no"),
      Form(GoodName, <<>>, Rep("t", 4), GoodDescription, "yes"),
      Form(GoodName, <<>>, Rep("t", 101), GoodDescription, ""),
      Form(GoodName, <<>>, GoodTitle, Rep("d", 19), "yes"),
      Form(GoodName, <<>>, GoodTitle, Rep("d", 1001), "no"),
      Form(<<>>, <<>>, <<>>, <<>>, "") }

\* The forms the model submits.
Forms == ValidForms \cup InvalidForms

\* The values of the sort select: the two the code names and one other.
SortValues == {"newest", "highest", "oldest"}

\* ------------------------------------------------------------------------
\* State
\* ------------------------------------------------------------------------

VARIABLES
    reviews,         \* let reviews = []: the store, in submission order
    selectedRating,  \* let selectedRating = 0
    sortValue,       \* sortReviewsSelect.value
    now,             \* the clock Date.now() and new Date() read
    stats,           \* the four statistics elements' contents
    list,            \* reviewsList's content: the placeholder or the cards
    pc               \* "idle" between events, "submit" inside the submit
                     \* handler after resetForm() and before updateStatistics()

vars == <<reviews, selectedRating, sortValue, now, stats, list, pc>>

\* ------------------------------------------------------------------------
\* Statistics
\* ------------------------------------------------------------------------

FilledStar == "filled"
EmptyStar == "empty"

\* generateStarHTML(rating): the glyphs of the returned string.
generateStarHTML(rating) ==
    LET fullStars   == MathFloor(rating)
        hasHalfStar == FracAtLeastHalf(rating)
        emptyStars  == 5 - MathCeil(rating)
    IN  Rep(FilledStar, fullStars)
            \o (IF hasHalfStar THEN <<FilledStar>> ELSE <<>>)
            \o Rep(EmptyStar, IF emptyStars > 0 THEN emptyStars ELSE 0)

RECURSIVE SumOver(_, _)
\* The sum of weight[v] over the values v of a finite set.
SumOver(values, weight) ==
    IF values = {} THEN 0
    ELSE LET v == CHOOSE x \in values : \A y \in values : x <= y
         IN  weight[v] + SumOver(values \ {v}, weight)

\* reviews.reduce((sum, review) => sum + review.rating, 0): each rating
\* value times the number of reviews that carry it.
totalRatingOf(rs) ==
    LET values == {rs[i].rating : i \in 1..Len(rs)}
    IN  SumOver(values,
                [v \in values |-> v * Cardinality({i \in 1..Len(rs) : rs[i].rating = v})])

\* reviews.filter(review => review.recommend === true).length
recommendCountOf(rs) == Cardinality({i \in 1..Len(rs) : rs[i].recommend = JsTrue})

\* updateStatistics() past its early return: the average, the percentage
\* and the star strip of a store that is not empty.  averageRating is the
\* shown string in tenths ("3.7" is 37).
statisticsOf(rs) ==
    LET totalReviews == Len(rs)
        averageRating == toFixed1(DivDouble(totalRatingOf(rs), totalReviews))
        recommendPercentage ==
            MathRound(MulDouble(DivDouble(recommendCountOf(rs), totalReviews), 100))
    IN  [totalReviews |-> totalReviews,
         averageRating |-> averageRating,
         averageStars |-> generateStarHTML(parseFloat1(averageRating)),
         recommendPercentage |-> recommendPercentage]

\* Mutant of updateStatistics: no early return for the empty store, so the
\* average and the percentage are 0 / 0, NaN, written -1 here.
updateStatisticsNoEmptyBranch(rs) ==
    IF Len(rs) = 0
    THEN [totalReviews |-> 0, averageRating |-> -1, averageStars |-> <<>>,
          recommendPercentage |-> -1]
    ELSE statisticsOf(rs)

\* updateStatistics(): what the four statistics elements show for store rs.
updateStatistics(rs) ==
    IF Len(rs) = 0
    THEN [totalReviews |-> 0, averageRating |-> 0, averageStars |-> <<>>,
          recommendPercentage |-> 0]
    ELSE statisticsOf(rs)

\* ------------------------------------------------------------------------
\* Review cards
\* ------------------------------------------------------------------------

\* The value the comparator of a sort mode orders by, 0 for the modes that
\* do not sort.
sortKey(review, mode) ==
    IF mode = "newest" THEN review.date
    ELSE IF mode = "highest" THEN review.rating
    ELSE 0

\* Mutant of getSortedReviews: a sort that is not stable, reviews with equal
\* keys come out latest first.
getSortedReviewsLaterFirst(rs, mode) ==
    LET n    == Len(rs)
        key  == [i \in 1..n |-> sortKey(rs[i], mode)] \o <<>>
        rank == [i \in 1..n |->
                    1 + Cardinality({j \in 1..n : key[j] > key[i]})
                      + Cardinality({j \in (i + 1)..n : key[j] = key[i]})] \o <<>>
    IN  [p \in 1..n |-> CHOOSE i \in 1..n : rank[i] = p] \o <<>>

\* getSortedReviews(): the copy [...reviews] after the sort of the mode, as
\* positions in the store.  Array.prototype.sort is stable and the
\* comparators are (a, b) => b.key - a.key, so a review comes after every
\* review with a larger key and after the earlier reviews with its own key.
getSortedReviews(rs, mode) ==
    LET n    == Len(rs)
        key  == [i \in 1..n |-> sortKey(rs[i], mode)] \o <<>>
        rank == [i \in 1..n |->
                    1 + Cardinality({j \in 1..n : key[j] > key[i]})
                      + Cardinality({j \in 1..(i - 1) : key[j] = key[i]})] \o <<>>
    IN  [p \in 1..n |-> CHOOSE i \in 1..n : rank[i] = p] \o <<>>

\* escapeHTML(text): the markup-significant characters as entities.
escapeHTML(text) ==
    [i \in 1..Len(text) |->
        CASE text[i] = "&" -> "&amp;"
          [] text[i] = "<" -> "&lt;"
          [] text[i] = ">" -> "&gt;"
          [] OTHER -> text[i]]

\* formatDate(date): year, month, day, hour and minute of the date; the
\* seconds and milliseconds are not shown.
formatDate(date) == date \div 60000

\* createReviewCard(review) for the review at position src of the store.
createReviewCard(rs, src) ==
    LET review == rs[src]
    IN  [src            |-> src,
         name           |-> escapeHTML(review.name),
         dateString     |-> formatDate(review.date),
         starsHTML      |-> Rep(FilledStar, review.rating) \o Rep(EmptyStar, 5 - review.rating),
         rating         |-> review.rating,
         title          |-> escapeHTML(review.title),
         description    |-> escapeHTML(review.description),
         recommendHTML  |-> IF review.recommend # JsNull
                            THEN (IF review.recommend = JsTrue
                                  THEN "Recommends this product" ELSE "Does not recommend")
                            ELSE "",
         voted          |-> review.helpfulVoted,
         reviewId       |-> review.id,
         helpfulCount   |-> review.helpfulCount]

\* Mutant of displayReviews: the last sorted review gets no card.
displayReviewsButLast(rs, mode) ==
    IF Len(rs) = 0
    THEN [noReviews |-> TRUE, cards |-> <<>>]
    ELSE LET sortedReviews == getSortedReviews(rs, mode)
         IN  [noReviews |-> FALSE,
              cards |-> [k \in 1..(Len(sortedReviews) - 1) |->
                            createReviewCard(rs, sortedReviews[k])]]

\* displayReviews(): reviewsList's content for store rs under the sort mode.
displayReviews(rs, mode) ==
    IF Len(rs) = 0
    THEN [noReviews |-> TRUE, cards |-> <<>>]
    ELSE LET sortedReviews == getSortedReviews(rs, mode)
         IN  [noReviews |-> FALSE,
              cards |-> [k \in 1..Len(sortedReviews) |-> createReviewCard(rs, sortedReviews[k])]]

\* ------------------------------------------------------------------------
\* Handlers
\* ------------------------------------------------------------------------

\* The page once the script has run and DOMContentLoaded has called
\* updateStatistics() and displayReviews().
Init ==
    /\ reviews = <<>>
    /\ selectedRating = 0
    /\ sortValue \in SortValues
    /\ now = CHOOSE t \in ClockValues : \A u \in ClockValues : t <= u
    /\ stats = updateStatistics(<<>>)
    /\ list = displayReviews(<<>>, sortValue)
    /\ pc = "idle"

\* Time passes between two events.
Tick ==
    /\ pc = "idle"
    /\ now + 1 \in ClockValues
    /\ now' = now + 1
    /\ UNCHANGED <<reviews, selectedRating, sortValue, stats, list, pc>>

\* The click handler of a star: data-rating of the clicked star.
StarClick(rating) ==
    /\ pc = "idle"
    /\ selectedRating' = rating
    /\ UNCHANGED <<reviews, sortValue, now, stats, list, pc>>

\* The review the submit handler builds: Date.now() read idNow, new Date()
\* read dateNow.
newReview(form, idNow, dateNow) ==
    [id           |-> idNow,
     name         |-> trim(form.customerName),
     email        |-> trim(form.customerEmail),
     title        |-> trim(form.reviewTitle),
     description  |-> trim(form.reviewDescription),
     rating       |-> selectedRating,
     recommend    |-> recommendValueOf(form.recommend),
     date         |-> dateNow,
     helpfulCount |-> 0,
     helpfulVoted |-> FALSE]

\* Mutant of isFormValid: the rating check is left out.
isFormValidNoRating(form) ==
    /\ validateName(form.customerName)
    /\ validateEmail(form.customerEmail)
    /\ validateTitle(form.reviewTitle)
    /\ validateDescription(form.reviewDescription)

\* isFormValid after the five checks of the submit handler.
isFormValid(form) ==
    /\ validateName(form.customerName)
    /\ validateEmail(form.customerEmail)
    /\ validateTitle(form.reviewTitle)
    /\ validateDescription(form.reviewDescription)
    /\ validateRating(selectedRating)

\* The submit handler of the form, with the form's contents and the clock
\* value new Date() reads (the clock may advance after Date.now()).
Submit(form, dateNow) ==
    /\ pc = "idle"
    /\ dateNow \in {now, now + 1} \cap ClockValues
    /\ IF isFormValid(form)
       THEN /\ Len(reviews) < MaxReviews
            /\ reviews' = Append(reviews, newReview(form, now, dateNow))
            /\ selectedRating' = 0
            /\ now' = dateNow
            /\ stats' = updateStatistics(reviews')
            /\ list' = displayReviews(reviews', sortValue)
            /\ UNCHANGED <<sortValue, pc>>
       ELSE /\ dateNow = now
            /\ UNCHANGED vars

\* reviews.find(r => r.id === reviewId): the position of the first review
\* with the id, 0 when there is none.
findReview(rs, reviewId) ==
    LET hits == {i \in 1..Len(rs) : rs[i].id = reviewId}
    IN  IF hits = {} THEN 0 ELSE CHOOSE i \in hits : \A j \in hits : i <= j

\* Mutant of handleHelpfulClick: the vote flag is not tested.
handleHelpfulClickAlways(reviewId) ==
    LET review == findReview(reviews, reviewId)
    IN  IF review # 0
        THEN /\ reviews' = [reviews EXCEPT ![review].helpfulCount = @ + 1,
                                           ![review].helpfulVoted = TRUE]
             /\ list' = displayReviews(reviews', sortValue)
             /\ UNCHANGED <<selectedRating, sortValue, now, stats, pc>>
        ELSE UNCHANGED vars

\* handleHelpfulClick(e) for a button whose data-review-id is reviewId.
handleHelpfulClick(reviewId) ==
    LET review == findReview(reviews, reviewId)
    IN  IF review # 0 /\ ~reviews[review].helpfulVoted
        THEN /\ reviews' = [reviews EXCEPT ![review].helpfulCount = @ + 1,
                                           ![review].helpfulVoted = TRUE]
             /\ list' = displayReviews(reviews', sortValue)
             /\ UNCHANGED <<selectedRating, sortValue, now, stats, pc>>
        ELSE UNCHANGED vars

\* A click on the helpful button of the k-th card shown.
HelpfulClick(k) ==
    /\ pc = "idle"
    /\ k \in 1..Len(list.cards)
    /\ handleHelpfulClick(list.cards[k].reviewId)

\* Ids no stored review carries.
UnknownIds == {t - 1 : t \in ClockValues} \ ClockValues

\* The helpful handler run for a button that names no stored review.
StrayHelpfulClick(reviewId) ==
    /\ pc = "idle"
    /\ findReview(reviews, reviewId) = 0
    /\ handleHelpfulClick(reviewId)

\* Mutant of the change handler: the store itself is sorted, not a copy.
SortChangeInPlace(mode) ==
    /\ pc = "idle"
    /\ mode # sortValue
    /\ sortValue' = mode
    /\ reviews' = [k \in 1..Len(reviews) |-> reviews[getSortedReviews(reviews, mode)[k]]]
    /\ list' = displayReviews(reviews', mode)
    /\ UNCHANGED <<selectedRating, now, stats, pc>>

\* The change handler of the sort select: the value selected.
SortChange(mode) ==
    /\ pc = "idle"
    /\ mode # sortValue
    /\ sortValue' = mode
    /\ list' = displayReviews(reviews, mode)
    /\ UNCHANGED <<reviews, selectedRating, now, stats, pc>>

Next ==
    \/ Tick
    \/ \E rating \in StarButtons : StarClick(rating)
    \/ \E form \in Forms, dateNow \in ClockValues : Submit(form, dateNow)
    \/ \E k \in 1..MaxReviews : HelpfulClick(k)
    \/ \E reviewId \in UnknownIds \cup ClockValues : StrayHelpfulClick(reviewId)
    \/ \E mode \in SortValues : SortChange(mode)

Spec == Init /\ [][Next]_vars

\* ------------------------------------------------------------------------
\* The statistics and the sort on larger stores
\* ------------------------------------------------------------------------

\* A stored review with the given rating, recommendation and clock values.
storedReview(rating, recommend, idNow, dateNow) ==
    [id           |-> idNow,
     name         |-> GoodName,
     email        |-> <<>>,
     title        |-> GoodTitle,
     description  |-> GoodDescription,
     rating       |-> rating,
     recommend    |-> recommend,
     date         |-> dateNow,
     helpfulCount |-> 0,
     helpfulVoted |-> FALSE]

\* The store of count reviews whose ratings add up to sum, the lower rating
\* first; nobody chose a recommendation.
RatingStore(count, sum) ==
    LET low  == sum \div count
        high == sum - low * count
    IN  [i \in 1..count |->
            storedReview(IF i <= count - high THEN low ELSE low + 1, JsNull, i, i)]

\* The store of count reviews of which the first yes recommend; the others
\* do not, or chose nothing, in turn.
RecommendStore(count, yes) ==
    [i \in 1..count |->
        storedReview(4, IF i <= yes THEN JsTrue ELSE IF i % 2 = 0 THEN JsFalse ELSE JsNull,
                     i, i)]

\* What one review of a sorting store varies: its rating, whether the clock
\* advanced before its Date.now(), and whether between that and new Date().
SortChoices == [rating : {1, 2, 3}, steps : {<<0, 0>>, <<1, 0>>, <<0, 1>>}]

\* The store the choices describe, with the clock values they add up to.
SortStore(choices) ==
    [i \in 1..Len(choices) |->
        LET before == Cardinality({j \in 1..(i - 1) : choices[j].steps # <<0, 0>>})
        IN  storedReview(choices[i].rating, JsNull,
                         before + choices[i].steps[1],
                         before + choices[i].steps[1] + choices[i].steps[2])]

\* The stores the statistics specification starts from.
AggStores ==
    {RatingStore(c, s) : <<c, s>> \in {x \in (1..MaxCount) \X (1..(5 * MaxCount)) :
                                          x[1] <= x[2] /\ x[2] <= 5 * x[1]}}
    \cup {RecommendStore(c, y) : <<c, y>> \in {x \in (1..MaxCount) \X (0..MaxCount) :
                                                  x[2] <= x[1]}}
    \cup UNION {{SortStore(ch) : ch \in [1..n -> SortChoices]} : n \in 1..MaxSortLen}

\* Inside the submit handler of the last review of a store: the review is
\* pushed and the form reset, the page still shows the store before it.
InitAgg ==
    /\ reviews \in AggStores
    /\ selectedRating = 0
    /\ sortValue \in SortValues
    /\ now = reviews[Len(reviews)].date
    /\ stats = updateStatistics(SubSeq(reviews, 1, Len(reviews) - 1))
    /\ list = displayReviews(SubSeq(reviews, 1, Len(reviews) - 1), sortValue)
    /\ pc = "submit"

\* The rest of the submit handler: updateStatistics(); displayReviews().
Publish ==
    /\ pc = "submit"
    /\ stats' = updateStatistics(reviews)
    /\ list' = displayReviews(reviews, sortValue)
    /\ pc' = "idle"
    /\ UNCHANGED <<reviews, selectedRating, sortValue, now>>

NextAgg ==
    \/ Publish
    \/ \E mode \in SortValues : SortChange(mode)

SpecAgg == InitAgg /\ [][NextAgg]_vars

\* ------------------------------------------------------------------------
\* Properties
\* ------------------------------------------------------------------------

\* The positions of the store.
Stored == 1..Len(reviews)

\* Ids a helpful button can carry.
ButtonIds == UnknownIds \cup ClockValues

\* C1: any two distinct reviews in the store have different ids, whatever
\* the clock read when they were submitted.
C1_UniqueIds ==
    \A i, j \in Stored : i # j => reviews[i].id # reviews[j].id

\* The helpful count of every review is 1 when it is voted and 0 when not.
VotedIffCounted ==
    \A i \in Stored :
        reviews[i].helpfulCount = (IF reviews[i].helpfulVoted THEN 1 ELSE 0)

\* In one step a helpful count grows by at most 1, and only as the review
\* turns from unvoted to voted; a voted review keeps its flag and its count.
HelpfulStep ==
    \A i \in Stored :
        /\ i \in 1..Len(reviews')
        /\ reviews'[i].helpfulCount \in
               {reviews[i].helpfulCount, reviews[i].helpfulCount + 1}
        /\ reviews[i].helpfulVoted =>
               /\ reviews'[i].helpfulVoted
               /\ reviews'[i].helpfulCount = reviews[i].helpfulCount
        /\ reviews'[i].helpfulCount # reviews[i].helpfulCount =>
               ~reviews[i].helpfulVoted /\ reviews'[i].helpfulVoted

\* The helpful handler, run for an id: the first time for the id it counts
\* one vote for the review found, and changes nothing when the review found
\* is voted already or when no review has the id.
HelpfulHandlerStep ==
    \A reviewId \in ButtonIds :
        handleHelpfulClick(reviewId) =>
            LET found == findReview(reviews, reviewId)
            IN  IF found # 0 /\ ~reviews[found].helpfulVoted
                THEN /\ Len(reviews') = Len(reviews)
                     /\ reviews'[found].helpfulCount = reviews[found].helpfulCount + 1
                     /\ reviews'[found].helpfulVoted
                     /\ \A i \in Stored \ {found} : reviews'[i] = reviews[i]
                ELSE UNCHANGED vars

\* C2: markHelpful is idempotent: a review's helpfulCount is incremented
\* once in total, on the first click while helpfulVoted is false; a later
\* click on the same id and a click on an id of no review change nothing;
\* helpfulVoted implies helpfulCount >= 1 and never goes back to false.
C2_HelpfulOnce ==
    /\ [](VotedIffCounted)
    /\ [][HelpfulStep /\ HelpfulHandlerStep]_vars

\* Two reviews share an id, the first is voted and the second is not: every
\* click on either card went to the first.
C2_Witness ==
    /\ Len(reviews) = 2
    /\ reviews[1].id = reviews[2].id
    /\ reviews[1].helpfulVoted /\ reviews[1].helpfulCount = 1
    /\ ~reviews[2].helpfulVoted /\ reviews[2].helpfulCount = 0

\* The statistics shown are those of the store, and the cards shown are the
\* store sorted by the sort mode, each with the count and the flag of the
\* review it stands for.
ViewAgrees ==
    /\ stats = updateStatistics(reviews)
    /\ list = displayReviews(reviews, sortValue)
    /\ \A k \in 1..Len(list.cards) :
           /\ list.cards[k].src \in Stored
           /\ list.cards[k].helpfulCount = reviews[list.cards[k].src].helpfulCount
           /\ list.cards[k].voted = reviews[list.cards[k].src].helpfulVoted

\* A helpful click that changes the store changes the count of the review
\* the clicked card stands for.
ClickedCardCounts ==
    \A k \in 1..Len(list.cards) :
        (HelpfulClick(k) /\ reviews' # reviews) =>
            reviews'[list.cards[k].src].helpfulCount
                = reviews[list.cards[k].src].helpfulCount + 1

\* C3: after every mutating handler returns, the published view agrees with
\* the store: the statistics are those of the store, the cards are the
\* store sorted by the sort mode with each review's helpful count and flag,
\* and the review whose card was clicked is the one whose count changed.
C3_ViewAgrees ==
    /\ [](pc = "idle" => ViewAgrees)
    /\ [][ClickedCardCounts]_vars

\* The number of reviews of the store with recommend = true, on its own
\* count (not through recommendCountOf).
YesCount == Cardinality({i \in Stored : reviews[i].recommend = JsTrue})

\* The sum of the ratings of the store, by rating value.
RatingSum ==
    1 * Cardinality({i \in Stored : reviews[i].rating = 1})
    + 2 * Cardinality({i \in Stored : reviews[i].rating = 2})
    + 3 * Cardinality({i \in Stored : reviews[i].rating = 3})
    + 4 * Cardinality({i \in Stored : reviews[i].rating = 4})
    + 5 * Cardinality({i \in Stored : reviews[i].rating = 5})

\* C4: for a non-empty store the displayed averageRating is the mean of the
\* ratings rounded half-up to one decimal: floor((20*sum + count) /
\* (2*count)) tenths.
C4_AverageHalfUp ==
    (pc = "idle" /\ Len(reviews) > 0) =>
        stats.averageRating = (20 * RatingSum + Len(reviews)) \div (2 * Len(reviews))

\* C5: for a non-empty store recommendPercentage is 100 * (reviews with
\* recommend = true) / count rounded to the nearest integer (a half rounds
\* up, as Math.round does), within 0..100; reviews that recommend false or
\* nothing count in the denominator only.
C5_RecommendPercentage ==
    (pc = "idle" /\ Len(reviews) > 0) =>
        /\ stats.recommendPercentage \in 0..100
        /\ stats.recommendPercentage
               = (200 * YesCount + Len(reviews)) \div (2 * Len(reviews))

\* The key of the review a card stands for, under the sort mode.
CardKey(k) == sortKey(reviews[list.cards[k].src], sortValue)

\* C6: under 'highest' (key rating) and 'newest' (key creation time) the
\* list is non-increasing in the key and reviews with equal keys keep their
\* store order; under any other mode the list is the store in its order.
C6_SortedStable ==
    pc = "idle" =>
        IF sortValue \in {"highest", "newest"}
        THEN \A k, l \in 1..Len(list.cards) :
                 k < l =>
                     /\ CardKey(k) >= CardKey(l)
                     /\ CardKey(k) = CardKey(l) => list.cards[k].src < list.cards[l].src
        ELSE \A k \in 1..Len(list.cards) : list.cards[k].src = k

\* Under 'highest', three reviews rated 1, 3, 3 are shown second, third,
\* first; under 'newest' two reviews of the same millisecond keep their order
\* behind a later one.
C6_Witness ==
    /\ pc = "idle"
    /\ Len(reviews) = 3
    /\ \/ /\ sortValue = "highest"
          /\ <<reviews[1].rating, reviews[2].rating, reviews[3].rating>> = <<1, 3, 3>>
          /\ <<list.cards[1].src, list.cards[2].src, list.cards[3].src>> = <<2, 3, 1>>
       \/ /\ sortValue = "newest"
          /\ reviews[1].date = reviews[2].date /\ reviews[2].date < reviews[3].date
          /\ <<list.cards[1].src, list.cards[2].src, list.cards[3].src>> = <<3, 1, 2>>

\* C7: the card list has as many entries as the store has reviews and holds
\* each stored review exactly once, under every sort mode.
C7_EveryReviewOnce ==
    pc = "idle" =>
        /\ Len(list.cards) = Len(reviews)
        /\ \A i \in Stored :
               Cardinality({k \in 1..Len(list.cards) : list.cards[k].src = i}) = 1
        /\ \A k \in 1..Len(list.cards) :
               /\ list.cards[k].reviewId = reviews[list.cards[k].src].id
               /\ list.cards[k].rating = reviews[list.cards[k].src].rating

\* A sorted view that is not the store order: the top-rated review shown
\* first is the last of at least three stored.
C7_Witness ==
    /\ pc = "idle"
    /\ sortValue = "highest"
    /\ Len(reviews) >= 3
    /\ Len(list.cards) = Len(reviews)
    /\ list.cards[1].src = Len(reviews)

\* C8: with an empty store the statistics are count 0, average 0.0 and 0 %
\* with an empty star strip, and the review list holds no review entry.
C8_EmptyStore ==
    (pc = "idle" /\ Len(reviews) = 0) =>
        /\ stats.totalReviews = 0
        /\ stats.averageRating = 0
        /\ stats.recommendPercentage = 0
        /\ stats.averageStars = <<>>
        /\ list.cards = <<>>
        /\ list.noReviews

\* The store is still empty after a star was clicked and the clock moved.
C8_Witness ==
    /\ pc = "idle"
    /\ Len(reviews) = 0
    /\ selectedRating = 5
    /\ now # 0
    /\ stats.totalReviews = 0

\* A review without its two helpful fields.
Created(review) ==
    [f \in DOMAIN review \ {"helpfulCount", "helpfulVoted"} |-> review[f]]

\* C9: the store is append-only: its length never decreases, a submit that
\* succeeds appends exactly one review at the end, the stored reviews keep
\* their order (sorting works on a copy), and no field of a stored review
\* but helpfulCount and helpfulVoted changes after creation.
C9_AppendOnly ==
    [][ /\ Len(reviews') \in {Len(reviews), Len(reviews) + 1}
        /\ \A i \in Stored : Created(reviews'[i]) = Created(reviews[i])
        /\ Len(reviews') = Len(reviews) + 1 =>
               /\ reviews'[Len(reviews')].rating = selectedRating
               /\ reviews'[Len(reviews')].helpfulCount = 0
               /\ ~reviews'[Len(reviews')].helpfulVoted
               /\ \A i \in Stored : reviews'[i] = reviews[i]
        /\ sortValue' # sortValue => reviews' = reviews
      ]_vars

\* Two reviews, the better one stored last and so shown first under
\* 'highest', and the first stored one voted helpful.
C9_Witness ==
    /\ Len(reviews) = 2
    /\ reviews[1].rating < reviews[2].rating
    /\ sortValue = "highest"
    /\ list.cards[1].src = 2
    /\ reviews[1].helpfulVoted

\* C10: for a non-empty store the star strip of the average a has 5 glyphs:
\* floor(a) filled, one more filled when a mod 1 >= 0.5, then 5 - ceil(a)
\* empty.  a is the displayed average, in tenths.
C10_FiveGlyphs ==
    (pc = "idle" /\ Len(reviews) > 0) =>
        LET a      == stats.averageRating
            filled == a \div 10 + (IF a % 10 >= 5 THEN 1 ELSE 0)
            empty  == 5 - (a + 9) \div 10
        IN  /\ stats.averageStars = Rep(FilledStar, filled) \o Rep(EmptyStar, empty)
            /\ Len(stats.averageStars) = 5

\* The four text validators accept the form's fields.
TextValidatorsSucceed(form) ==
    /\ validateName(form.customerName)
    /\ validateEmail(form.customerEmail)
    /\ validateTitle(form.reviewTitle)
    /\ validateDescription(form.reviewDescription)

\* Every stored review has a rating in 1..5 and texts the validators accept.
StoredValid ==
    \A i \in Stored :
        /\ reviews[i].rating \in 1..5
        /\ validateName(reviews[i].name)
        /\ validateEmail(reviews[i].email)
        /\ validateTitle(reviews[i].title)
        /\ validateDescription(reviews[i].description)

\* The forms whose fields the four text validators accept.
TextValidForms == {form \in Forms : TextValidatorsSucceed(form)}

\* A submit in which the five validators succeed appends the review built
\* from the form and resets the selected rating; a submit in which one
\* fails leaves the store as it is.  (Written "outcome or no submit".)
SubmitValidated ==
    \A form \in Forms, dateNow \in ClockValues :
        \/ IF form \in TextValidForms /\ validateRating(selectedRating)
           THEN /\ reviews' = Append(reviews, newReview(form, now, dateNow))
                /\ selectedRating' = 0
           ELSE reviews' = reviews
        \/ ~Submit(form, dateNow)

\* The store grows only by a review built from a form the text validators
\* accept, with the selected rating, which the rating validator accepts.
CreatedBySubmit ==
    Len(reviews') # Len(reviews) =>
        /\ Len(reviews') = Len(reviews) + 1
        /\ validateRating(selectedRating)
        /\ \E form \in TextValidForms :
               /\ Created(reviews'[Len(reviews')])
                      = Created(newReview(form, reviews'[Len(reviews')].id,
                                          reviews'[Len(reviews')].date))

\* With no star selected, no step adds a review.
NoStarNoReview ==
    selectedRating = 0 => Len(reviews') = Len(reviews)

\* C11: a review is created only by a submit in which all five validators
\* succeed; a submit in which a validator fails leaves the store unchanged,
\* so every stored review has a rating in 1..5; a successful submit resets
\* the selected rating to 0, so a submit that follows it without a new star
\* click adds no review.
C11_ValidatedSubmit ==
    /\ [](StoredValid)
    /\ [][SubmitValidated /\ CreatedBySubmit /\ NoStarNoReview]_vars

\* A review was just stored and the selected rating is back to 0: there is
\* room in the store and there are forms the text validators accept, but
\* the rating validator rejects the submit.
C11_Witness ==
    /\ pc = "idle"
    /\ Len(reviews) = 1
    /\ Len(reviews) < MaxReviews
    /\ reviews[1].rating \in 1..5
    /\ selectedRating = 0
    /\ TextValidForms # {}
    /\ ~validateRating(selectedRating)

====
